---- MODULE Spec2Model ----
(***************************************************************************)
(* Model of the three survey-analysis scripts of the repository:           *)
(*   analyze_survey.py, analyze_awareness_impact.py and                    *)
(*   analyze_irreplaceability.py.                                          *)
(* Each script is a batch job: load the CSV, run its analysis steps in     *)
(* sequence, write its artifacts.  A step is one action; an exception      *)
(* raised inside a step ends the run (pc = "crashed").                     *)
(***************************************************************************)
EXTENDS Integers, Sequences, FiniteSets, TLC

VARIABLES
    script,   \* which of the three scripts is running
    file,     \* the input CSV: [exists, rows] (rows: the lines after the two header rows)
    pc,       \* position of the script
    err,      \* the exception / error that ended the run, "none" otherwise
    df,       \* the loaded response table (sequence of rows)
    out,      \* set of artifacts written so far
    printed,  \* whether the script printed its own error message
    a1,       \* locals and metrics of area_1_enrollment_threat
    a2,       \* locals and metrics of area_2_roi_pressure
    a3,       \* locals and metrics of area_3_program_value
    gap,      \* locals and metrics of analyze_awareness_gap
    inc,      \* locals and metrics of analyze_incentive_shift
    irr       \* locals of analyze_irreplaceability

vars == <<script, file, pc, err, df, out, printed, a1, a2, a3, gap, inc, irr>>

----------------------------------------------------------------------------
(* Bounds of the model *)

\* longest enumerated file: lines after the two header rows
MaxRows == 3

----------------------------------------------------------------------------
(* Cells.  pandas holds a blank cell as NaN, a text cell as str and a      *)
(* coerced / mapped cell as a number.                                      *)

NaN == [t |-> "nan"]
Str(s) == [t |-> "str", v |-> s]
Num(n) == [t |-> "num", v |-> n]

isna(c) == c.t = "nan"
notna(c) == ~isna(c)

\* (variant of Le: a missing code compared as if it were 0)
LeMissingAsZero(c, n) == (IF c.t = "num" THEN c.v ELSE 0) <= n

\* a pandas comparison  cell <= n : False on NaN
Le(c, n) == c.t = "num" /\ c.v <= n

Scripts == {"analyze_survey", "analyze_awareness_impact", "analyze_irreplaceability"}

RankCols == <<"Q24_1", "Q24_2", "Q24_3", "Q24_4", "Q24_5", "Q24_6">>

Columns == {"col0", "Q27", "Q31", "Q35", "Q53", "Q52", "Q55", "Q44", "Q49",
            "Q24_1", "Q24_2", "Q24_3", "Q24_4", "Q24_5", "Q24_6"}

ImportIdCell == Str("{\"ImportId\":\"QID\"}")

\* str.startswith('{"ImportId"') over the cell texts of the model
StartsWithImportId(c) == c.t = "str" /\ c.v \in {ImportIdCell.v}

\* the metadata sentinel row of the export: every cell is an ImportId marker
ImportRow == [c \in Columns |-> ImportIdCell]

\* the second header row (question text)
QuestionTextRow == [c \in Columns |-> Str("question text")]

----------------------------------------------------------------------------
(* Input rows.  A row is built from three groups of answers; a table       *)
(* varies one group and keeps a fixed complete answer for the others.      *)

Q35Labels == <<"Extremely unlikely", "Somewhat unlikely", "Neither likely nor unlikely",
               "Somewhat likely", "Extremely likely">>

ROILabels == <<"Definitely not", "Probably not", "Might or might not",
               "Probably yes", "Definitely yes">>

Who(q27, q31, q35, q53, q52) ==
    [Q27 |-> q27, Q31 |-> q31, Q35 |-> q35, Q53 |-> q53, Q52 |-> q52]

Roi(q55, q44, q49) == [Q55 |-> q55, Q44 |-> q44, Q49 |-> q49]

Rank(s) == [c \in {RankCols[k] : k \in 1..6} |-> s[CHOOSE k \in 1..6 : RankCols[k] = c]]

MkRow(w, r, k) ==
    [c \in Columns |->
        IF c = "col0" THEN Str("2025-12-01")
        ELSE IF c \in DOMAIN w THEN w[c]
        ELSE IF c \in DOMAIN r THEN r[c]
        ELSE k[c]]

DefaultWho == Who(Str("Graduate"), Str("Yes"), NaN, NaN, NaN)
DefaultRoi == Roi(Str("Probably yes"), NaN, Str("Yes"))
DefaultRank == Rank(<<Str("1"), Str("2"), Str("3"), Str("4"), Str("5"), Str("6")>>)

Unaware(q35) == Who(Str("Graduate"), Str("No"), q35, NaN, NaN)
Undergrad(q53, q52) == Who(Str("Undergraduate"), NaN, NaN, q53, q52)

\* graduate / awareness answers enumerated for analyze_survey
SurveyWho ==
    { Unaware(Str("Extremely unlikely")), Unaware(Str("Somewhat unlikely")),
      Unaware(Str("Somewhat likely")), Unaware(Str("Not sure")), Unaware(NaN),
      Who(Str("Graduate"), Str("Yes"), NaN, NaN, NaN),
      Who(Str("Graduate"), NaN, NaN, NaN, NaN),
      Undergrad(NaN, NaN) }

\* answers enumerated for analyze_awareness_impact
ImpactWho ==
    { Unaware(Str("Extremely unlikely")), Unaware(Str("Not sure")), Unaware(NaN),
      Who(Str("Graduate"), Str("Yes"), NaN, NaN, NaN),
      Who(Str("Graduate"), Str("Maybe"), NaN, NaN, NaN),
      Who(Str("Graduate"), NaN, NaN, NaN, NaN),
      Undergrad(Str("Yes"), Str("More")), Undergrad(Str("Yes"), Str("Less")),
      Undergrad(Str("No"), Str("More")), Undergrad(Str("No"), NaN),
      Undergrad(NaN, Str("More")) }

\* ROI belief / employer pressure answers
SurveyRoi ==
    { Roi(Str("Probably yes"), NaN, Str("Yes")), Roi(Str("Might or might not"), NaN, Str("Yes")),
      Roi(NaN, Str("Definitely not"), Str("Yes")), Roi(Str("Probably not"), NaN, Str("No")),
      Roi(Str("Definitely yes"), NaN, NaN), Roi(Str("Unsure"), NaN, Str("Yes")),
      Roi(NaN, NaN, Str("Yes")) }

\* forced-ranking answers
RankAnswers ==
    { Rank(<<Str("1"), Str("2"), Str("3"), Str("4"), Str("5"), Str("6")>>),
      Rank(<<Str("2"), Str("1"), Str("3"), Str("4"), Str("6"), Str("5")>>),
      Rank(<<Str("6"), Str("5"), Str("4"), Str("3"), Str("1"), Str("2")>>),
      Rank(<<Str("n/a"), NaN, Str("3"), Str("3"), Str("5"), Str("6")>>),
      Rank(<<NaN, NaN, NaN, NaN, NaN, NaN>>) }

SeqsUpTo(S, n) == UNION {[1..k -> S] : k \in 0..n}

WhoRows(W) == {MkRow(w, DefaultRoi, DefaultRank) : w \in W}
RoiRows == {MkRow(DefaultWho, r, DefaultRank) : r \in SurveyRoi}
RankRows == {MkRow(DefaultWho, DefaultRoi, k) : k \in RankAnswers}

\* Scenario B of the specification: codes [1, 2, unmapped, 4, 5] among unaware graduates
ScenarioB ==
    [i \in 1..5 |-> MkRow(Unaware(<<Str("Extremely unlikely"), Str("Somewhat unlikely"),
                                    Str("bad"), Str("Somewhat likely"),
                                    Str("Extremely likely")>>[i]),
                          DefaultRoi, DefaultRank)]

\* Scenario D of the specification: groups {Yes: [a, a, b], No: [a]}
ScenarioD ==
    [i \in 1..4 |-> MkRow(<<Undergrad(Str("Yes"), Str("More")), Undergrad(Str("Yes"), Str("More")),
                            Undergrad(Str("Yes"), Str("Less")), Undergrad(Str("No"), Str("More"))>>[i],
                          DefaultRoi, DefaultRank)]

\* one unaware graduate per Q35 / ROI label, one with an unknown label, one blank
ScenarioLabels ==
    [i \in 1..7 |->
        MkRow(Unaware(<<Str(Q35Labels[1]), Str(Q35Labels[2]), Str(Q35Labels[3]),
                        Str(Q35Labels[4]), Str(Q35Labels[5]), Str("bad"), NaN>>[i]),
              Roi(<<Str(ROILabels[1]), Str(ROILabels[2]), Str(ROILabels[3]),
                    Str(ROILabels[4]), Str(ROILabels[5]), Str("Unsure"), NaN>>[i],
                  NaN, Str("Yes")),
              DefaultRank)]

\* the tables of at most n responses enumerated for script s
Tables(s, n) ==
    IF s = "analyze_survey"
      THEN SeqsUpTo(WhoRows(SurveyWho), n) \cup SeqsUpTo(RoiRows, n) \cup SeqsUpTo(RankRows, n)
    ELSE IF s = "analyze_awareness_impact"
      THEN SeqsUpTo(WhoRows(ImpactWho), n)
    ELSE SeqsUpTo(RankRows, n)

\* the named tables given to script s
Scenarios(s) ==
    IF s = "analyze_survey" THEN {ScenarioB, ScenarioLabels}
    ELSE IF s = "analyze_awareness_impact" THEN {ScenarioB, ScenarioD}
    ELSE {}

\* The input file: missing, or at most MaxRows lines after the two header
\* rows; the export may or may not carry the metadata row before the responses.
Files(s) ==
    {[exists |-> FALSE, rows |-> <<>>]}
    \cup {[exists |-> TRUE, rows |-> d] : d \in Tables(s, MaxRows) \cup Scenarios(s)}
    \cup {[exists |-> TRUE, rows |-> <<ImportRow>> \o d] :
             d \in Tables(s, MaxRows - 1) \cup Scenarios(s)}

----------------------------------------------------------------------------
(* DataFrame helpers *)

\* boolean-mask selection d[cond]: the rows satisfying Test, in order
Filter(d, Test(_)) == SelectSeq(d, Test)

\* d[c] = v on one row: a new column is added, an existing one is overwritten
SetCell(r, c, v) == IF c \in DOMAIN r THEN [r EXCEPT ![c] = v] ELSE r @@ (c :> v)

\* Series.value_counts(): count per distinct non-blank value
value_counts(d, c) ==
    [v \in {d[i][c] : i \in {j \in 1..Len(d) : notna(d[j][c])}} |->
        Cardinality({i \in 1..Len(d) : d[i][c] = v})]

RECURSIVE SumOver(_, _)
SumOver(f, S) ==
    IF S = {} THEN 0
    ELSE LET x == CHOOSE y \in S : TRUE IN f[x] + SumOver(f, S \ {x})

\* counts.get(label, 0)
get(counts, label) == IF Str(label) \in DOMAIN counts THEN counts[Str(label)] ELSE 0

\* a ratio times 100, kept exact: num / den
Pct(c, n) == [num |-> c * 100, den |-> n]
Zero == [num |-> 0, den |-> 1]

\* (c / n) * 100 if n > 0 else 0
GuardedPct(c, n) == IF n > 0 THEN Pct(c, n) ELSE Zero

\* round half to even of a / b  (b > 0, a >= 0)
RoundHalfEven(a, b) ==
    LET q == a \div b
        r == a % b
    IN IF 2 * r < b THEN q
       ELSE IF 2 * r > b THEN q + 1
       ELSE IF q % 2 = 0 THEN q ELSE q + 1

\* (variant of Tenths: truncation instead of rounding)
TenthsTruncated(p) == (p.num * 10) \div p.den

\* f"{p:.1f}" and Series.round(1): the value in tenths
Tenths(p) == RoundHalfEven(p.num * 10, p.den)

----------------------------------------------------------------------------
(* Start of a run *)

NoResult == [run |-> FALSE]

Init ==
    /\ script \in Scripts
    /\ file \in Files(script)
    /\ pc = "load"
    /\ err = "none"
    /\ df = <<>>
    /\ out = {}
    /\ printed = FALSE
    /\ a1 = NoResult
    /\ a2 = NoResult
    /\ a3 = NoResult
    /\ gap = NoResult
    /\ inc = NoResult
    /\ irr = NoResult

----------------------------------------------------------------------------
(* load_and_clean_data of analyze_survey.py and analyze_awareness_impact.py *)

\* the table the loader returns for an existing file with at least one data row
DropMetadata(rows) ==
    IF StartsWithImportId(rows[1]["col0"]) THEN Tail(rows) ELSE rows

\* (variant of load_and_clean_data: a missing file is swallowed and the run
\*  goes on with an empty table)
load_and_clean_data_empty ==
    /\ pc = "load"
    /\ script \in {"analyze_survey", "analyze_awareness_impact"}
    /\ IF ~file.exists
         THEN /\ df' = <<>>
              /\ pc' = IF script = "analyze_survey" THEN "area_1" ELSE "awareness_gap"
              /\ UNCHANGED err
       ELSE IF file.rows = <<>>
         THEN /\ pc' = "crashed"
              /\ err' = "IndexError"
              /\ UNCHANGED df
       ELSE /\ df' = DropMetadata(file.rows)
            /\ pc' = IF script = "analyze_survey" THEN "area_1" ELSE "awareness_gap"
            /\ UNCHANGED err
    /\ UNCHANGED <<script, file, out, printed, a1, a2, a3, gap, inc, irr>>

load_and_clean_data ==
    /\ pc = "load"
    /\ script \in {"analyze_survey", "analyze_awareness_impact"}
    /\ IF ~file.exists
         THEN /\ pc' = "crashed"
              /\ err' = "FileNotFoundError"
              /\ UNCHANGED df
       ELSE IF file.rows = <<>>
         THEN /\ pc' = "crashed"   \* df.iloc[0, 0] on an empty frame
              /\ err' = "IndexError"
              /\ UNCHANGED df
       ELSE /\ df' = DropMetadata(file.rows)
            /\ pc' = IF script = "analyze_survey" THEN "area_1" ELSE "awareness_gap"
            /\ UNCHANGED err
    /\ UNCHANGED <<script, file, out, printed, a1, a2, a3, gap, inc, irr>>

----------------------------------------------------------------------------
(* analyze_survey.py *)

q35_map ==
    ("Extremely unlikely" :> 1) @@ ("Somewhat unlikely" :> 2)
    @@ ("Neither likely nor unlikely" :> 3) @@ ("Somewhat likely" :> 4)
    @@ ("Extremely likely" :> 5)

roi_map ==
    ("Definitely not" :> 1) @@ ("Probably not" :> 2) @@ ("Might or might not" :> 3)
    @@ ("Probably yes" :> 4) @@ ("Definitely yes" :> 5)

\* Series.map(dict): the code of a label of the table, NaN for anything else
map(c, m) == IF c.t = "str" /\ c.v \in DOMAIN m THEN Num(m[c.v]) ELSE NaN

\* Series.fillna(other)
fillna(c, other) == IF isna(c) THEN other ELSE c

\* value_counts().reindex(labels, fill_value=0)
reindex(counts, labels) ==
    [l \in {labels[k] : k \in DOMAIN labels} |-> get(counts, l)]

\* the texts pd.to_numeric parses, among the cell texts of the model
Numerals == ("1" :> 1) @@ ("2" :> 2) @@ ("3" :> 3) @@ ("4" :> 4) @@ ("5" :> 5) @@ ("6" :> 6)

\* (variant of to_numeric: an unparseable text becomes 0 instead of missing)
to_numeric_zero(c) ==
    IF c.t = "num" THEN c
    ELSE IF c.t = "str" THEN (IF c.v \in DOMAIN Numerals THEN Num(Numerals[c.v]) ELSE Num(0))
    ELSE NaN

\* pd.to_numeric(errors='coerce') on one cell
to_numeric(c) ==
    IF c.t = "num" THEN c
    ELSE IF c.t = "str" /\ c.v \in DOMAIN Numerals THEN Num(Numerals[c.v])
    ELSE NaN

\* the value a column assignment computes for one row
Derived(r, c, how) ==
    CASE how = "map_q35" -> map(r["Q35"], q35_map)
      [] how = "fillna" -> fillna(r["Q55"], r["Q44"])
      [] how = "map_roi" -> map(r["ROI_Belief_Raw"], roi_map)
      [] how = "to_numeric" -> to_numeric(r[c])

RECURSIVE WithColumn(_, _, _)
\* d[c] = <derived value>, row by row
WithColumn(d, c, how) ==
    IF d = <<>> THEN <<>>
    ELSE <<SetCell(Head(d), c, Derived(Head(d), c, how))>> \o WithColumn(Tail(d), c, how)

area_1_enrollment_threat ==
    /\ pc = "area_1"
    /\ LET grad_students == Filter(df, LAMBDA r : r["Q27"] = Str("Graduate"))
           total_grad == Len(grad_students)
           unaware == Filter(grad_students, LAMBDA r : r["Q31"] = Str("No"))
           num_unaware == Len(unaware)
           unaware_grad == WithColumn(unaware, "Q35_numeric", "map_q35")
           potential_loss_count ==
               Len(Filter(unaware_grad, LAMBDA r : Le(r["Q35_numeric"], 2)))
       IN a1' = [run |-> TRUE,
                 total_grad |-> total_grad,
                 unaware_grad |-> unaware_grad,
                 num_unaware |-> num_unaware,
                 pct_unaware |-> GuardedPct(num_unaware, total_grad),
                 potential_loss_count |-> potential_loss_count,
                 pct_potential_loss_of_unaware |-> GuardedPct(potential_loss_count, num_unaware),
                 pct_potential_loss_total |-> GuardedPct(potential_loss_count, total_grad),
                 counts |-> reindex(value_counts(unaware_grad, "Q35"), Q35Labels)]
    /\ out' = out \cup {"enrollment_threat.png"}
    /\ pc' = "area_2"
    /\ UNCHANGED <<script, file, err, df, printed, a2, a3, gap, inc, irr>>

\* a proportion of value_counts(normalize=True), kept exact
Prop(c, n) == [num |-> c, den |-> n]

\* roi_df.groupby('Q49')['ROI_Belief_Raw'].value_counts(normalize=True), reindexed
props(roi_df) ==
    [g \in {roi_df[i]["Q49"] : i \in 1..Len(roi_df)} |->
        LET grp == Filter(roi_df, LAMBDA r : r["Q49"] = g)
            valid == Len(Filter(grp, LAMBDA r : notna(r["ROI_Belief_Raw"])))
        IN [l \in {ROILabels[k] : k \in DOMAIN ROILabels} |->
               Prop(get(value_counts(grp, "ROI_Belief_Raw"), l), valid)]]

area_2_roi_pressure ==
    /\ pc = "area_2"
    /\ LET df1 == WithColumn(df, "ROI_Belief_Raw", "fillna")
           df2 == WithColumn(df1, "ROI_Belief_Score", "map_roi")
           roi_df == Filter(df2, LAMBDA r : notna(r["ROI_Belief_Score"]) /\ notna(r["Q49"]))
           num_reluctant ==
               Len(Filter(roi_df, LAMBDA r : Le(r["ROI_Belief_Score"], 3) /\ r["Q49"] = Str("Yes")))
       IN /\ df' = df2
          /\ IF Len(roi_df) = 0
               THEN /\ pc' = "crashed"   \* num_reluctant / len(roi_df)
                    /\ err' = "ZeroDivisionError"
                    /\ UNCHANGED <<a2, out>>
             ELSE /\ a2' = [run |-> TRUE,
                            roi_df |-> roi_df,
                            num_reluctant |-> num_reluctant,
                            pct_reluctant |-> Pct(num_reluctant, Len(roi_df)),
                            props |-> props(roi_df)]
                  /\ out' = out \cup {"roi_vs_pressure.png"}
                  /\ pc' = "area_3"
                  /\ UNCHANGED err
    /\ UNCHANGED <<script, file, printed, a1, a3, gap, inc, irr>>

RECURSIVE ToNumericCols(_, _)
\* for col in cols: d[col] = pd.to_numeric(d[col], errors='coerce')
ToNumericCols(d, k) ==
    IF k = 0 THEN d
    ELSE WithColumn(ToNumericCols(d, k - 1), RankCols[k], "to_numeric")

RECURSIVE SumCol(_, _)
SumCol(d, c) ==
    IF d = <<>> THEN 0
    ELSE (IF Head(d)[c].t = "num" THEN Head(d)[c].v ELSE 0) + SumCol(Tail(d), c)

\* Series.mean() (skipna): sum / count of the non-missing values, NaN when there is none
mean(d, c) ==
    LET cnt == Len(Filter(d, LAMBDA r : r[c].t = "num"))
    IN IF cnt = 0 THEN NaN ELSE [t |-> "mean", sum |-> SumCol(d, c), cnt |-> cnt]

\* d[cols].mean(): the six means in field order
Means(d) ==
    <<mean(d, "Q24_1"), mean(d, "Q24_2"), mean(d, "Q24_3"),
      mean(d, "Q24_4"), mean(d, "Q24_5"), mean(d, "Q24_6")>>

MeanLess(a, b) == a.sum * b.cnt < b.sum * a.cnt
MeanEq(a, b) == a.sum * b.cnt = b.sum * a.cnt

\* Series.sort_values() (ascending, kind='quicksort', na_position='last'):
\* the orders of the six fields the sort may return.  The non-missing means
\* come first in non-decreasing order; quicksort fixes no order among equal
\* means; the missing means follow in their original order.
sort_values(m) ==
    {p \in Permutations(1..6) :
        \A i \in 1..5 :
            IF isna(m[p[i]]) THEN isna(m[p[i + 1]]) /\ p[i] < p[i + 1]
            ELSE isna(m[p[i + 1]]) \/ ~MeanLess(m[p[i + 1]], m[p[i]])}

labels ==
    ("Q24_1" :> "CPA Prep") @@ ("Q24_2" :> "Networking") @@ ("Q24_3" :> "Faculty Interaction")
    @@ ("Q24_4" :> "Technical Skills") @@ ("Q24_5" :> "Soft Skills") @@ ("Q24_6" :> "Recruiting")

area_3_program_value ==
    /\ pc = "area_3"
    /\ LET d == ToNumericCols(df, 6)
           m == Means(d)
       IN /\ df' = d
          /\ \E p \in sort_values(m) :
                a3' = [run |-> TRUE,
                       means |-> m,
                       mean_ranks |-> p,
                       Top_Feature |-> labels[RankCols[p[1]]],
                       Top_Feature_Score |-> m[p[1]],
                       Bottom_Feature |-> labels[RankCols[p[6]]],
                       Bottom_Feature_Score |-> m[p[6]]]
    /\ out' = out \cup {"program_value.png"}
    /\ pc' = "export"
    /\ UNCHANGED <<script, file, err, printed, a1, a2, gap, inc, irr>>

export_summary ==
    /\ pc = "export"
    /\ out' = out \cup {"cpa_pathway_summary.csv"}
    /\ pc' = "done"
    /\ UNCHANGED <<script, file, err, df, printed, a1, a2, a3, gap, inc, irr>>

----------------------------------------------------------------------------
(* analyze_awareness_impact.py *)

analyze_awareness_gap ==
    /\ pc = "awareness_gap"
    /\ LET grad_df == Filter(df, LAMBDA r : r["Q27"] = Str("Graduate") /\ notna(r["Q31"]))
           total_grad == Len(grad_df)
           grad_aware_counts == value_counts(grad_df, "Q31")
           unaware_grad_count == get(grad_aware_counts, "No")
           aware_grad_count == get(grad_aware_counts, "Yes")
           undergrad_df ==
               Filter(df, LAMBDA r : r["Q27"] = Str("Undergraduate") /\ notna(r["Q53"]))
           total_undergrad == Len(undergrad_df)
           undergrad_aware_counts == value_counts(undergrad_df, "Q53")
           unaware_undergrad_count == get(undergrad_aware_counts, "No")
           aware_undergrad_count == get(undergrad_aware_counts, "Yes")
       IN gap' = [run |-> TRUE,
                  total_grad |-> total_grad,
                  grad_aware_counts |-> grad_aware_counts,
                  unaware_grad_count |-> unaware_grad_count,
                  aware_grad_count |-> aware_grad_count,
                  pct_unaware_grad |-> GuardedPct(unaware_grad_count, total_grad),
                  pct_aware_grad |-> GuardedPct(aware_grad_count, total_grad),
                  total_undergrad |-> total_undergrad,
                  undergrad_aware_counts |-> undergrad_aware_counts,
                  unaware_undergrad_count |-> unaware_undergrad_count,
                  aware_undergrad_count |-> aware_undergrad_count,
                  pct_unaware_undergrad |-> GuardedPct(unaware_undergrad_count, total_undergrad),
                  pct_aware_undergrad |-> GuardedPct(aware_undergrad_count, total_undergrad)]
    /\ out' = out \cup {"awareness_gap.png"}
    /\ pc' = "incentive_shift"
    /\ UNCHANGED <<script, file, err, df, printed, a1, a2, a3, inc, irr>>

\* d['Q52'].value_counts(normalize=True).mul(100).round(1): tenths of a percent
Q52Distribution(d) ==
    LET vc == value_counts(d, "Q52")
        valid == Len(Filter(d, LAMBDA r : notna(r["Q52"])))
    IN [v \in DOMAIN vc |-> Tenths(Pct(vc[v], valid))]

analyze_incentive_shift ==
    /\ pc = "incentive_shift"
    /\ LET undergrad_q52 ==
               Filter(df, LAMBDA r : r["Q27"] = Str("Undergraduate") /\ notna(r["Q52"]))
           unaware_grads ==
               Filter(df, LAMBDA r : /\ r["Q27"] = Str("Graduate")
                                     /\ r["Q31"] = Str("No")
                                     /\ notna(r["Q35"]))
           total_unaware_grads == Len(unaware_grads)
           q35_counts == value_counts(unaware_grads, "Q35")
           unlikely_count ==
               get(q35_counts, "Extremely unlikely") + get(q35_counts, "Somewhat unlikely")
           undergrad_aware ==
               Filter(df, LAMBDA r : /\ r["Q27"] = Str("Undergraduate")
                                     /\ r["Q53"] = Str("Yes")
                                     /\ notna(r["Q52"]))
           undergrad_unaware ==
               Filter(df, LAMBDA r : /\ r["Q27"] = Str("Undergraduate")
                                     /\ r["Q53"] = Str("No")
                                     /\ notna(r["Q52"]))
       IN inc' = [run |-> TRUE,
                  q52_counts |-> value_counts(undergrad_q52, "Q52"),
                  unaware_grads |-> unaware_grads,
                  total_unaware_grads |-> total_unaware_grads,
                  q35_counts |-> q35_counts,
                  unlikely_count |-> unlikely_count,
                  pct_unlikely |-> GuardedPct(unlikely_count, total_unaware_grads),
                  undergrad_aware |-> undergrad_aware,
                  undergrad_unaware |-> undergrad_unaware,
                  aware_dist |-> Q52Distribution(undergrad_aware),
                  unaware_dist |-> Q52Distribution(undergrad_unaware)]
    /\ out' = out \cup {"incentive_shift_pie.png"}
    /\ pc' = "summary"
    /\ UNCHANGED <<script, file, err, df, printed, a1, a2, a3, gap, irr>>

\* main(): the summary text file
write_summary ==
    /\ pc = "summary"
    /\ out' = out \cup {"awareness_impact_summary.txt"}
    /\ pc' = "done"
    /\ UNCHANGED <<script, file, err, df, printed, a1, a2, a3, gap, inc, irr>>

----------------------------------------------------------------------------
(* analyze_irreplaceability.py (module top level) *)

\* pd.read_csv(file_path) inside try/except, then df.drop(0)
irr_load ==
    /\ pc = "load"
    /\ script = "analyze_irreplaceability"
    /\ IF ~file.exists
         THEN /\ printed' = TRUE
              /\ pc' = "exited"
              /\ err' = "exit(1)"
              /\ UNCHANGED df
       ELSE /\ df' = Tail(<<QuestionTextRow>> \o file.rows)
            /\ pc' = "rank"
            /\ UNCHANGED <<err, printed>>
    /\ UNCHANGED <<script, file, out, a1, a2, a3, gap, inc, irr>>

columns_mapping ==
    ("Q24_1" :> "CPA Exam Prep") @@ ("Q24_2" :> "Networking (Peers/Alumni)")
    @@ ("Q24_3" :> "Faculty Interaction") @@ ("Q24_4" :> "Technical Skills")
    @@ ("Q24_5" :> "Soft Skills") @@ ("Q24_6" :> "Recruiting/Internships")

\* df[relevant_columns].copy()
RECURSIVE Subset(_)
Subset(d) ==
    IF d = <<>> THEN <<>>
    ELSE <<[Q24_1 |-> Head(d)["Q24_1"], Q24_2 |-> Head(d)["Q24_2"], Q24_3 |-> Head(d)["Q24_3"],
            Q24_4 |-> Head(d)["Q24_4"], Q24_5 |-> Head(d)["Q24_5"], Q24_6 |-> Head(d)["Q24_6"]]>>
         \o Subset(Tail(d))

\* a < b on floats: False when either is NaN
Lt(a, b) == notna(a) /\ notna(b) /\ MeanLess(a, b)
min(a, b) == IF Lt(b, a) THEN b ELSE a
max(a, b) == IF Lt(a, b) THEN b ELSE a

\* lines 27-40: subset, numeric coercion, means, ascending sort
irr_rank ==
    /\ pc = "rank"
    /\ LET df_subset == ToNumericCols(Subset(df), 6)
           m == Means(df_subset)
       IN \E p \in sort_values(m) :
            irr' = [run |-> TRUE,
                    df_subset |-> df_subset,
                    means |-> m,
                    sorted_ranks |-> p]
    /\ pc' = "insights"
    /\ UNCHANGED <<script, file, err, df, out, printed, a1, a2, a3, gap, inc>>

\* lines 47-76: the insights and insights.txt
irr_insights ==
    /\ pc = "insights"
    /\ LET technical_score == irr.means[4]
           networking_score == irr.means[2]
           recruiting_score == irr.means[6]
       IN irr' = [irr EXCEPT !.run = TRUE] @@
                 [most_essential |-> columns_mapping[RankCols[irr.sorted_ranks[1]]],
                  comparison_insight |->
                      IF Lt(technical_score, min(networking_score, recruiting_score))
                        THEN "Technical Skills more"
                      ELSE IF Lt(max(networking_score, recruiting_score), technical_score)
                        THEN "Networking and Recruiting more"
                      ELSE "in between"]
    /\ out' = out \cup {"insights.txt"}
    /\ pc' = "chart"
    /\ UNCHANGED <<script, file, err, df, printed, a1, a2, a3, gap, inc>>

\* lines 79-98: the bar chart
irr_chart ==
    /\ pc = "chart"
    /\ out' = out \cup {"program_irreplaceability.png"}
    /\ pc' = "done"
    /\ UNCHANGED <<script, file, err, df, printed, a1, a2, a3, gap, inc, irr>>

----------------------------------------------------------------------------

Next ==
    \/ load_and_clean_data
    \/ area_1_enrollment_threat
    \/ area_2_roi_pressure
    \/ area_3_program_value
    \/ export_summary
    \/ analyze_awareness_gap
    \/ analyze_incentive_shift
    \/ write_summary
    \/ irr_load
    \/ irr_rank
    \/ irr_insights
    \/ irr_chart

Spec == Init /\ [][Next]_vars

----------------------------------------------------------------------------
(* Properties *)

\* the table a successful load returns
Loaded ==
    IF script = "analyze_irreplaceability" THEN Tail(<<QuestionTextRow>> \o file.rows)
    ELSE DropMetadata(file.rows)

\* equality of two exact ratios
RatEq(p, q) == p.num * q.den = q.num * p.den

\* number of rows of d satisfying Test
Count(d, Test(_)) == Cardinality({i \in 1..Len(d) : Test(d[i])})

\* 100 * c / n, and 0 when n = 0
PctOrZero(c, n) == IF n = 0 THEN Zero ELSE [num |-> 100 * c, den |-> n]

IsGrad(r) == r["Q27"] = Str("Graduate")
IsUndergrad(r) == r["Q27"] = Str("Undergraduate")
IsUnawareGrad(r) == IsGrad(r) /\ r["Q31"] = Str("No")

\* the code of a Q35 / ROI label by its place in the label table, 0 when it has none
CodeOf(c, tbl) ==
    IF c.t = "str" /\ \E k \in 1..5 : tbl[k] = c.v
      THEN CHOOSE k \in 1..5 : tbl[k] = c.v
    ELSE 0

\* C1: every ratio with a zero denominator yields 0 and the run never ends in
\* an error because of it: the percentages of area_1_enrollment_threat,
\* area_2_roi_pressure, analyze_awareness_gap and analyze_incentive_shift are
\* 0 over an empty subset and the run goes on to the summary export.
C1_ZeroDenominatorYieldsZero ==
    /\ err # "ZeroDivisionError"
    /\ a1.run =>
          /\ a1.total_grad = 0 => a1.pct_unaware = Zero /\ a1.pct_potential_loss_total = Zero
          /\ a1.num_unaware = 0 => a1.pct_potential_loss_of_unaware = Zero
    /\ (pc \in {"area_3", "export", "done"} /\ script = "analyze_survey") =>
          /\ a2.run
          /\ Len(a2.roi_df) = 0 => a2.pct_reluctant = Zero
    /\ gap.run =>
          /\ gap.total_grad = 0 => gap.pct_unaware_grad = Zero /\ gap.pct_aware_grad = Zero
          /\ gap.total_undergrad = 0 =>
                gap.pct_unaware_undergrad = Zero /\ gap.pct_aware_undergrad = Zero
    /\ inc.run => (inc.total_unaware_grads = 0 => inc.pct_unlikely = Zero)

\* C2: a blank Q31 is excluded from numerator and denominator of the graduate
\* 'unaware' percentage: it is 100 * count(Q31 = No) / count(graduate rows
\* with a non-blank Q31), in area_1_enrollment_threat and in
\* analyze_awareness_gap.
C2_BlankExcludedFromUnawarePct ==
    LET no == Count(Loaded, IsUnawareGrad)
        valid == Count(Loaded, LAMBDA r : IsGrad(r) /\ notna(r["Q31"]))
    IN /\ a1.run => RatEq(a1.pct_unaware, PctOrZero(no, valid))
       /\ gap.run => RatEq(gap.pct_unaware_grad, PctOrZero(no, valid))

\* C3: threshold aggregation over Q35 counts the rows whose code is <= 2 and
\* reports the count as a percentage of the valid (mapped, non-blank) rows
\* only; rows whose Q35 is blank or not in the label table are in neither the
\* count nor the denominator (codes [1, 2, unmapped, 4, 5]: 2 of 4, 50.0).
C3_ThresholdPctOverValidRows ==
    LET low == Count(Loaded, LAMBDA r : IsUnawareGrad(r) /\ CodeOf(r["Q35"], Q35Labels) \in {1, 2})
        valid == Count(Loaded, LAMBDA r : IsUnawareGrad(r) /\ CodeOf(r["Q35"], Q35Labels) # 0)
    IN /\ a1.run =>
            /\ a1.potential_loss_count = low
            /\ RatEq(a1.pct_potential_loss_of_unaware, PctOrZero(low, valid))
       /\ inc.run =>
            /\ inc.unlikely_count = low
            /\ RatEq(inc.pct_unlikely, PctOrZero(low, valid))

NoAggregation ==
    /\ ~a1.run /\ ~a2.run /\ ~a3.run
    /\ ~gap.run /\ ~inc.run /\ ~irr.run

\* C4: when the input CSV does not exist, each of the three scripts reports
\* an error and terminates without writing any artifact and without running
\* any aggregation step.
C4_MissingFileNoOutput ==
    ~file.exists =>
        /\ out = {}
        /\ NoAggregation
        /\ df = <<>>
        /\ pc \in {"load", "crashed", "exited"}
        /\ pc # "load" =>
              \/ (pc = "crashed" /\ err = "FileNotFoundError")
              \/ (pc = "exited" /\ err = "exit(1)" /\ printed)

\* C4 witness: a run on a missing file has ended
C4_Witness ==
    /\ ~file.exists
    /\ pc \in {"crashed", "exited"}
    /\ out = {}

\* C5: after loading, the table is read-only: no step changes the value of an
\* original field of a row (a step may only add derived columns).
C5_OriginalFieldsUnchanged ==
    [][pc # "load" =>
         /\ Len(df') = Len(df)
         /\ \A i \in 1..Len(df) : \A c \in Columns : df'[i][c] = df[i][c]]_vars

ParsedSum(d, k) ==
    LET S == {i \in 1..Len(d) : d[i][RankCols[k]].t = "str" /\ d[i][RankCols[k]].v \in DOMAIN Numerals}
    IN SumOver([i \in S |-> Numerals[d[i][RankCols[k]].v]], S)
ParsedCount(d, k) ==
    Cardinality({i \in 1..Len(d) : d[i][RankCols[k]].t = "str" /\ d[i][RankCols[k]].v \in DOMAIN Numerals})

ExpectedMean(d, k) ==
    IF ParsedCount(d, k) = 0 THEN NaN
    ELSE [t |-> "mean", sum |-> ParsedSum(d, k), cnt |-> ParsedCount(d, k)]

\* C7: a ranking value that does not parse as a number becomes missing without
\* aborting the run, and the mean of each of Q24_1..Q24_6 is the sum of the
\* parsed values divided by their number (missing when there is none), in
\* area_3_program_value and in analyze_irreplaceability.
C7_MeanOfParsedValues ==
    /\ (script = "analyze_survey" /\ pc \in {"export", "done"}) =>
          a3.run /\ err = "none"
    /\ (script = "analyze_irreplaceability" /\ pc \in {"insights", "chart", "done"}) =>
          irr.run /\ err = "none"
    /\ a3.run => \A k \in 1..6 : a3.means[k] = ExpectedMean(Loaded, k)
    /\ irr.run => \A k \in 1..6 : irr.means[k] = ExpectedMean(Loaded, k)

\* C7 witness: a field holds an unparseable text and parsed values, and its
\* mean was computed
C7_Witness ==
    /\ a3.run
    /\ pc = "done"
    /\ \E i \in 1..Len(Loaded) : Loaded[i]["Q24_1"] = Str("n/a")
    /\ ParsedCount(Loaded, 1) = 2
    /\ a3.means[1] = [t |-> "mean", sum |-> ParsedSum(Loaded, 1), cnt |-> 2]

\* p orders the fields by mean, ascending, equal means in their original order
StableAscending(p, m) ==
    \A i, j \in 1..6 :
        (i < j /\ notna(m[p[i]]) /\ notna(m[p[j]])) =>
            \/ MeanLess(m[p[i]], m[p[j]])
            \/ (MeanEq(m[p[i]], m[p[j]]) /\ p[i] < p[j])

\* C8: the ranking of the six fields by mean is a stable ascending sort: the
\* order is non-decreasing in mean, fields with equal means keep the order
\* Q24_1..Q24_6, Top_Feature / 'most essential' is the first field of the
\* order and Bottom_Feature the last.
C8_StableAscendingRanking ==
    /\ a3.run =>
          /\ StableAscending(a3.mean_ranks, a3.means)
          /\ a3.Top_Feature = labels[RankCols[a3.mean_ranks[1]]]
          /\ a3.Bottom_Feature = labels[RankCols[a3.mean_ranks[6]]]
    /\ (irr.run /\ pc \in {"chart", "done"}) =>
          /\ StableAscending(irr.sorted_ranks, irr.means)
          /\ irr.most_essential = columns_mapping[RankCols[irr.sorted_ranks[1]]]

\* the Q52 answers of the undergraduates whose Q53 is g
InGroup(r, g) == IsUndergrad(r) /\ r["Q53"] = Str(g)

\* dist is the one-decimal percentage of each Q52 category within group g
GroupPercentages(dist, g) ==
    LET valid == Count(Loaded, LAMBDA r : InGroup(r, g) /\ notna(r["Q52"]))
    IN /\ DOMAIN dist = {Loaded[i]["Q52"] : i \in {j \in 1..Len(Loaded) :
                              InGroup(Loaded[j], g) /\ notna(Loaded[j]["Q52"])}}
       /\ \A v \in DOMAIN dist :
             LET c == Count(Loaded, LAMBDA r : InGroup(r, g) /\ r["Q52"] = v)
                 d == 1000 * c - dist[v] * valid
             IN /\ 2 * d <= valid
                /\ 2 * d >= 0 - valid

\* the ROI belief answer of a row: Q55, else Q44
RoiRaw(r) == IF notna(r["Q55"]) THEN r["Q55"] ELSE r["Q44"]

\* a row of the ROI analysis whose Q49 is g
InRoiGroup(r, g) == r["Q49"] = g /\ CodeOf(RoiRaw(r), ROILabels) # 0

\* C9: two-way aggregation reports, for the aware (Q53 = Yes) and the unaware
\* (Q53 = No) undergraduates, the percentage of each Q52 category within that
\* group only, rounded to one decimal; for {Yes: [a, a, b], No: [a]} the
\* Yes-group gets a = 66.7, b = 33.3 and the No-group a = 100.0; a blank Q52
\* is in no group's numerator or denominator.  (The chart of
\* area_2_roi_pressure holds, for each Q49 group, the share of each ROI
\* belief label within that group.)
C9_TwoWayPercentages ==
    /\ inc.run =>
          /\ GroupPercentages(inc.aware_dist, "Yes")
          /\ GroupPercentages(inc.unaware_dist, "No")
          /\ Loaded = ScenarioD =>
                /\ inc.aware_dist = (Str("More") :> 667) @@ (Str("Less") :> 333)
                /\ inc.unaware_dist = (Str("More") :> 1000)
    /\ a2.run =>
          /\ DOMAIN a2.props =
                {Loaded[i]["Q49"] : i \in {j \in 1..Len(Loaded) :
                     InRoiGroup(Loaded[j], Loaded[j]["Q49"]) /\ notna(Loaded[j]["Q49"])}}
          /\ \A g \in DOMAIN a2.props : \A k \in 1..5 :
                RatEq(a2.props[g][ROILabels[k]],
                      [num |-> Count(Loaded, LAMBDA r : InRoiGroup(r, g) /\ RoiRaw(r) = Str(ROILabels[k])),
                       den |-> Count(Loaded, LAMBDA r : InRoiGroup(r, g))])

\* C9 witness: scenario D was aggregated
C9_Witness ==
    /\ inc.run
    /\ Loaded = ScenarioD
    /\ inc.aware_dist[Str("More")] = 667
    /\ inc.unaware_dist[Str("More")] = 1000

\* C10: the per-category counts exclude blanks and sum to the valid-response
\* count reported with them: the Q31 (Q53) counts of analyze_awareness_gap sum
\* to total_grad (total_undergrad) and the Q35 counts charted by
\* area_1_enrollment_threat sum to num_unaware.
C10_CountsSumToValidCount ==
    /\ gap.run =>
          /\ SumOver(gap.grad_aware_counts, DOMAIN gap.grad_aware_counts) = gap.total_grad
          /\ SumOver(gap.undergrad_aware_counts, DOMAIN gap.undergrad_aware_counts)
               = gap.total_undergrad
          /\ \A v \in DOMAIN gap.grad_aware_counts \cup DOMAIN gap.undergrad_aware_counts :
                notna(v)
    /\ a1.run => SumOver(a1.counts, DOMAIN a1.counts) = a1.num_unaware

\* the response rows of the file: the lines after the two header rows, less
\* a first line whose first cell starts with the import-metadata prefix
Responses ==
    IF file.rows # <<>> /\ StartsWithImportId(file.rows[1]["col0"])
      THEN Tail(file.rows)
    ELSE file.rows

\* the run stands right after the load step
AfterLoad == pc \in {"area_1", "awareness_gap", "rank"}

\* C11: for every existing file with a valid two-row header, a file with no
\* data rows included, the load step ends without an error and the table it
\* returns is exactly the response rows of the file in their order: a first
\* data row whose first cell starts with '{"ImportId"' is discarded and no
\* other row is; the counts and means of the three scripts are those of the
\* response rows, so the metadata row contributes to none of them.
C11_LoaderReturnsResponses ==
    /\ (file.exists /\ pc # "load") => err # "IndexError"
    /\ AfterLoad => df = Responses
    /\ a1.run =>
          /\ a1.total_grad = Count(Responses, IsGrad)
          /\ a1.num_unaware = Count(Responses, IsUnawareGrad)
    /\ a3.run => \A k \in 1..6 : a3.means[k] = ExpectedMean(Responses, k)
    /\ gap.run =>
          /\ gap.total_grad = Count(Responses, LAMBDA r : IsGrad(r) /\ notna(r["Q31"]))
          /\ gap.total_undergrad =
                Count(Responses, LAMBDA r : IsUndergrad(r) /\ notna(r["Q53"]))
    /\ inc.run => inc.unlikely_count =
          Count(Responses, LAMBDA r : IsUnawareGrad(r) /\ CodeOf(r["Q35"], Q35Labels) \in {1, 2})
    /\ irr.run => \A k \in 1..6 : irr.means[k] = ExpectedMean(Responses, k)

====
